---- MODULE Spec2Model ----
(***************************************************************************)
(* Model of the vault core of Krypteringsvalv ("Hemliga valvet"):          *)
(*   core/crypto.py     CryptoManager   (key derivation, AEAD)             *)
(*   core/container.py  VaultContainer  (file format, open/load/save)      *)
(*   core/vfs.py        VirtualFileSystem (metadata map + blob)            *)
(* and of the two threaded helpers around it:                              *)
(*   core/session_manager.py  SessionManager  (inactivity timeout)         *)
(*   ui/async_ops.py          AsyncOperations (worker threads, dialogs)    *)
(*                                                                         *)
(* Abstractions.                                                           *)
(*  - Bytes are small integers.  The vault file is a sequence of three     *)
(*    chunks, header (38 bytes), nonce (12 bytes) and ciphertext; a write  *)
(*    reaches the file chunk by chunk, which is a subset of the partial    *)
(*    states a byte-wise write can leave.                                  *)
(*  - Argon2id is an injective function of (password, salt); AES-GCM is an *)
(*    ideal AEAD: decryption succeeds exactly on the unmodified ciphertext *)
(*    under the key, nonce and associated data it was produced with.       *)
(*  - os.urandom is a nondeterministic choice.                             *)
(*  - zlib is modelled by a run-length coder, JSON by a token sequence.    *)
(*  - A FileEntry keeps offset and size; created, modified and mime_type   *)
(*    are written once and never read by the operations modelled here.     *)
(*    kids holds the names of the keys a FileEntry dict has beside those.  *)
(*  - A path is a sequence of characters: SLASH, BACKSLASH, DOTDOT (the    *)
(*    segment "..") and the positive integers, which are segment names.    *)
(*    Symbolic links on the host appear only as what resolve() raises.     *)
(*  - Threads are interleaved step by step.  A "with self._lock" block     *)
(*    that cannot block inside is one step; the monitor thread holds the   *)
(*    lock across the steps from its check to the return of the callback.  *)
(*    Time is a clock that counts minutes.                                 *)
(***************************************************************************)
EXTENDS Integers, Sequences, FiniteSets, TLC

\* ------------------------------------------------------------------ bounds
MaxPaths == 2

MaxRawLen == 4
MaxCandLen == 3
MaxDirLen == 2

MaxWorkers == 2     \* worker threads AsyncOperations starts
MaxMonitors == 2    \* monitor threads SessionManager starts
MaxTime == 2        \* the clock, in minutes

\* ------------------------------------------------------- program constants
HEADER_SIZE == 38
NONCE_SIZE == 12
TAG_SIZE == 16
VERSION == 1
MAGIC_BYTES == "PYVAULT2"

Paths == 1..MaxPaths
Nonces == {1, 2}
Salts == {1, 2}
Passwords == {"pw1", "pw2"}
Containers == {1, 2}

\* The characters of a path, beside the segment names.
SLASH == 0
BACKSLASH == -1
DOTDOT == -2

\* The segment names of the paths on the host.
Names == {1, 2}

\* The strings of at most n characters of alphabet.
Strings(alphabet, n) == UNION { [1..k -> alphabet] : k \in 0..n }

\* The contents a source file on the host can have: none, or two bytes.
Contents == {<<>>, <<5, 6>>}

VARIABLES
    disk_exists,   \* the vault path names a file
    disk,          \* its content: [n, header, nonce, ct, clen]
    handle,        \* handle[c]: container c's _file_handle is not None
    metadata,      \* vfs.metadata: [has_files, files, order]
    file_data,     \* vfs.file_data
    blob_mutable,  \* vfs.file_data is a bytearray (TRUE) or bytes (FALSE)
    dirty,         \* vfs._dirty
    pc,            \* "idle", or "writing" inside _write_atomic
    pending,       \* the frame _write_atomic is writing
    wpos,          \* chunks of pending already written
    last,          \* the last call: [op, kind, detail, pw, kept, path, arg, ret]
    before,        \* history: the file as it was when the running save began
    saved,         \* history: what the last complete frame holds
    tampered,      \* history: the part of the frame changed behind the program
    tamper_done,   \* history: a byte of the file has been changed once
    crashed,       \* history: the process has died once inside a write
    loaded,        \* history: the vault in memory came from a successful load
    \* AsyncOperations (async_ops.py)
    current_worker,   \* self.current_worker: 0 (None) or a worker
    progress_dialog,  \* self.progress_dialog: 0 (None) or a dialog
    workers,          \* workers[w]: [pc, operation, callback, result]
    dialogs,          \* the progress dialogs that exist as windows
    app_calls,        \* app_calls[w]: calls of the application callback with
                      \* the result of worker w
    \* SessionManager (session_manager.py)
    _running,         \* self._running
    last_activity,    \* self.last_activity
    now,              \* time.time(), in minutes
    timeout_thread,   \* self.timeout_thread: 0 (None) or a monitor thread
    monitors,         \* monitors[m]: where thread m is in _monitor_activity
    _lock,            \* self._lock: 0 (free) or the monitor thread holding it
    callers,          \* callers[c]: where thread c is in start_session
    lock_callback,    \* self.lock_callback: what the callback does
    callbacks,        \* history: calls of lock_callback so far
    fired,            \* history: calls of lock_callback since start_session
    stopped           \* history: stop_session has returned since start_session

async_vars == <<current_worker, progress_dialog, workers, dialogs, app_calls>>
session_vars == <<_running, last_activity, now, timeout_thread, monitors, _lock,
                  callers, lock_callback, callbacks, fired, stopped>>

vars == <<disk_exists, disk, handle, metadata, file_data, blob_mutable, dirty,
          pc, pending, wpos, last, before, saved, tampered, tamper_done,
          crashed, loaded, async_vars, session_vars>>

\* ------------------------------------------------------------ crypto.py
\* CryptoManager.derive_key(password, salt): Argon2id with the class's fixed
\* cost constants; deterministic and, as a KDF, injective in the model.
derive_key(password, salt) == <<password, salt>>

\* derive_key's signature is (self, password, salt): a call that passes the
\* keyword fast_mode raises TypeError before the body runs.
derive_key_accepts_fast_mode == FALSE

\* CryptoManager.encrypt(data, key, aad) with the nonce generate_nonce chose.
encrypt(nonce, data, key, aad) ==
    [key |-> key, nonce |-> nonce, aad |-> aad, pt |-> data, flipped |-> FALSE]

\* A decryption that does not authenticate the associated data.
decrypt_ok_no_aad(nonce, ct, key, aad) ==
    /\ ct.key = key
    /\ ct.nonce = nonce
    /\ ~ct.flipped

\* A decryption that accepts any key (an unauthenticated cipher mode).
decrypt_ok_no_key(nonce, ct, key, aad) ==
    /\ ct.nonce = nonce
    /\ ct.aad = aad
    /\ ~ct.flipped

\* AESGCM.decrypt succeeds iff nothing it authenticates was changed.
decrypt_ok(nonce, ct, key, aad) ==
    /\ ct.key = key
    /\ ct.nonce = nonce
    /\ ct.aad = aad
    /\ ~ct.flipped

\* ---------------------------------------------------------- container.py
\* zlib.compress / zlib.decompress as a run-length coder.
RunLen(s) ==
    CHOOSE k \in 1..Len(s) :
        /\ \A i \in 1..k : s[i] = s[1]
        /\ (k = Len(s) \/ s[k + 1] # s[1])

RECURSIVE compress(_)
compress(s) ==
    IF s = <<>> THEN <<>>
    ELSE LET k == RunLen(s)
         IN  <<<<k, s[1]>>>> \o compress(SubSeq(s, k + 1, Len(s)))

RECURSIVE decompress(_)
decompress(z) ==
    IF z = <<>> THEN <<>>
    ELSE [i \in 1..z[1][1] |-> z[1][2]] \o decompress(Tail(z))

\* The names a path segment can have.
Segs == 1..MaxPaths

\* A set of segment names as one JSON token, and back.
RECURSIVE KeysToken(_)
KeysToken(ks) ==
    IF ks = {} THEN 0
    ELSE LET k == CHOOSE x \in ks : TRUE
         IN  2 ^ k + KeysToken(ks \ {k})

TokenKeys(t) == { k \in Segs : (t \div 2 ^ k) % 2 = 1 }

\* json.dumps(metadata).encode(): one marker for the "files" key, then
\* (path, offset, size, other keys) for every entry, in the order of the dict.
RECURSIVE dumps_entries(_, _)
dumps_entries(files, order) ==
    IF order = <<>> THEN <<>>
    ELSE LET p == Head(order)
         IN  <<p, files[p].offset, files[p].size, KeysToken(files[p].kids)>>
                 \o dumps_entries(files, Tail(order))

json_dumps(md) ==
    IF md.has_files THEN <<1>> \o dumps_entries(md.files, md.order)
    ELSE <<0>>

\* json.loads(metadata_bytes.decode())
json_loads(b) ==
    LET n == (Len(b) - 1) \div 4
        at(i) == 4 * (i - 1) + 2
        ps == { b[at(i)] : i \in 1..n }
    IN  [has_files |-> b[1] = 1,
         files |-> [p \in ps |->
                      LET i == CHOOSE j \in 1..n : b[at(j)] = p
                      IN  [offset |-> b[at(i) + 1], size |-> b[at(i) + 2],
                           kids |-> TokenKeys(b[at(i) + 3])]],
         order |-> [i \in 1..n |-> b[at(i)]]]

\* VaultContainer._serialize_payload
serialize_payload(md, data) ==
    LET metadata_bytes == json_dumps(md)
    IN  compress(<<Len(metadata_bytes)>> \o metadata_bytes \o data)

\* A deserializer whose blob slice starts one byte early.
deserialize_payload_early(payload) ==
    LET metadata_len == payload[1]
    IN  [metadata |-> json_loads(SubSeq(payload, 2, 1 + metadata_len)),
         file_data |-> SubSeq(payload, 1 + metadata_len, Len(payload))]

\* VaultContainer._deserialize_payload, on the decompressed payload
deserialize_payload(payload) ==
    LET metadata_len == payload[1]
    IN  [metadata |-> json_loads(SubSeq(payload, 2, 1 + metadata_len)),
         file_data |-> SubSeq(payload, 2 + metadata_len, Len(payload))]

\* VaultContainer._parse_header: "ok" or the ContainerError it raises.
parse_header(n, header) ==
    IF n < 1 THEN "header_size"
    ELSE IF header.magic # MAGIC_BYTES THEN "bad_magic"
    ELSE IF header.version # VERSION THEN "bad_version"
    ELSE "ok"

NoHeader == [magic |-> "", version |-> 0, salt |-> 0, p1 |-> 0, p2 |-> 0, p3 |-> 0]
NoCt == [key |-> <<"", 0>>, nonce |-> 0, aad |-> NoHeader, pt |-> <<>>, flipped |-> FALSE]
EmptyFile == [n |-> 0, header |-> NoHeader, nonce |-> 0, ct |-> NoCt, clen |-> 0]

\* Length in bytes of a ciphertext and of the file.
CtLen(ct) == Len(ct.pt) + TAG_SIZE
FileLen(d) ==
    (IF d.n >= 1 THEN HEADER_SIZE ELSE 0) + (IF d.n >= 2 THEN NONCE_SIZE ELSE 0)
        + (IF d.n >= 3 THEN d.clen ELSE 0)

Frame(header, nonce, ct) ==
    [n |-> 3, header |-> header, nonce |-> nonce, ct |-> ct, clen |-> CtLen(ct)]

\* The bytes after the nonce are exactly the ciphertext that was written.
CiphertextWhole(d) == d.n = 3 /\ d.clen = CtLen(d.ct)

EmptyFiles == [p \in {} |-> 0]
FreshMetadata == [has_files |-> FALSE, files |-> EmptyFiles, order |-> <<>>]

\* VirtualFileSystem.create_empty (the timestamp is not modelled)
create_empty == [has_files |-> TRUE, files |-> EmptyFiles, order |-> <<>>]

\* zlib.decompress accepts the streams compress produces (every run has a
\* positive length) and raises zlib.error on anything else.
zlib_ok(z) == \A i \in 1..Len(z) : z[i][1] >= 1

\* json.loads accepts the texts json_dumps produces: the "files" marker, then
\* four tokens for every entry.
json_ok(b) ==
    /\ Len(b) >= 1
    /\ b[1] \in {0, 1}
    /\ (Len(b) - 1) % 4 = 0
    /\ b[1] = 0 => Len(b) = 1

\* What _deserialize_payload raises on the decompressed payload: the two
\* ContainerErrors of its length checks, the ValueError (UnicodeDecodeError,
\* JSONDecodeError) of decode and json.loads, or nothing.
deserialize_raises(payload) ==
    IF Len(payload) < 1
    THEN [kind |-> "ContainerError", detail |-> "payload_too_small"]
    ELSE IF Len(payload) < 1 + payload[1]
    THEN [kind |-> "ContainerError", detail |-> "metadata_size_mismatch"]
    ELSE IF ~json_ok(SubSeq(payload, 2, 1 + payload[1]))
    THEN [kind |-> "ValueError", detail |-> "json"]
    ELSE [kind |-> "ok", detail |-> ""]

\* A load that derives the key from the salt field before it looks at the
\* magic bytes and the version.
load_derive_first(opened, d, password) ==
    IF ~opened
    THEN [kind |-> "ContainerError", detail |-> "not_opened",
          crypto |-> <<>>]
    ELSE IF FileLen(d) < HEADER_SIZE + NONCE_SIZE
    THEN [kind |-> "ContainerError", detail |-> "too_small",
          crypto |-> <<>>]
    ELSE IF parse_header(d.n, d.header) # "ok"
    THEN [kind |-> "ContainerError", detail |-> parse_header(d.n, d.header),
          crypto |-> <<"derive_key">>]
    ELSE IF ~(/\ CiphertextWhole(d)
              /\ decrypt_ok(d.nonce, d.ct, derive_key(password, d.header.salt), d.header))
    THEN [kind |-> "ContainerError", detail |-> "decrypt_failed",
          crypto |-> <<"derive_key", "decrypt">>]
    ELSE IF ~zlib_ok(d.ct.pt)
    THEN [kind |-> "zlib.error", detail |-> "decompress",
          crypto |-> <<"derive_key", "decrypt">>]
    ELSE IF deserialize_raises(decompress(d.ct.pt)).kind # "ok"
    THEN [kind |-> deserialize_raises(decompress(d.ct.pt)).kind,
          detail |-> deserialize_raises(decompress(d.ct.pt)).detail,
          crypto |-> <<"derive_key", "decrypt">>]
    ELSE LET r == deserialize_payload(decompress(d.ct.pt))
         IN  [kind |-> "ok", detail |-> "", metadata |-> r.metadata,
              file_data |-> r.file_data,
              crypto |-> <<"derive_key", "decrypt">>]

\* VaultContainer.load: the outcome of load(password) by a container whose
\* handle is opened (or not) on file d; crypto lists the calls made to the
\* CryptoManager, in order.
load(opened, d, password) ==
    IF ~opened
    THEN [kind |-> "ContainerError", detail |-> "not_opened",
          crypto |-> <<>>]
    ELSE IF FileLen(d) < HEADER_SIZE + NONCE_SIZE
    THEN [kind |-> "ContainerError", detail |-> "too_small",
          crypto |-> <<>>]
    ELSE IF parse_header(d.n, d.header) # "ok"
    THEN [kind |-> "ContainerError", detail |-> parse_header(d.n, d.header),
          crypto |-> <<>>]
    ELSE IF ~(/\ CiphertextWhole(d)
              /\ decrypt_ok(d.nonce, d.ct, derive_key(password, d.header.salt), d.header))
    THEN [kind |-> "ContainerError", detail |-> "decrypt_failed",
          crypto |-> <<"derive_key", "decrypt">>]
    ELSE IF ~zlib_ok(d.ct.pt)
    THEN [kind |-> "zlib.error", detail |-> "decompress",
          crypto |-> <<"derive_key", "decrypt">>]
    ELSE IF deserialize_raises(decompress(d.ct.pt)).kind # "ok"
    THEN [kind |-> deserialize_raises(decompress(d.ct.pt)).kind,
          detail |-> deserialize_raises(decompress(d.ct.pt)).detail,
          crypto |-> <<"derive_key", "decrypt">>]
    ELSE LET r == deserialize_payload(decompress(d.ct.pt))
         IN  [kind |-> "ok", detail |-> "", metadata |-> r.metadata,
              file_data |-> r.file_data,
              crypto |-> <<"derive_key", "decrypt">>]

\* The 38-byte header _build_header lays out: magic, version, salt, rounds
\* and two zero placeholders.
build_header(salt, rounds) ==
    [magic |-> MAGIC_BYTES, version |-> VERSION, salt |-> salt,
     p1 |-> rounds, p2 |-> 0, p3 |-> 0]

\* A vault that load accepts and that holds no file, under password "pw1":
\* the file an installation already has on disk when the program starts.
ExistingVault ==
    LET header == build_header(1, 8)
    IN  Frame(header, 1,
              encrypt(1, serialize_payload(create_empty, <<>>),
                      derive_key("pw1", 1), header))

\* The record of a call: kept says that the call left the vault file as it
\* found it; path is the vault path it was given, arg the other input it
\* used, ret what it returned or wrote on the host and crypto the calls it
\* made to the CryptoManager, in order.
Result(op, kind, detail, pw) ==
    [op |-> op, kind |-> kind, detail |-> detail, pw |-> pw, kept |-> TRUE,
     path |-> 0, arg |-> <<>>, ret |-> <<>>, crypto |-> <<>>]
NotSaved == [valid |-> FALSE, pw |-> "", metadata |-> FreshMetadata, file_data |-> <<>>]

Workers == 1..MaxWorkers
Monitors == 1..MaxMonitors
Callers == {1, 2}

\* AsyncOperations.__init__
InitAsync ==
    /\ current_worker = 0
    /\ progress_dialog = 0
    /\ workers = [w \in Workers |->
                    [pc |-> "none", operation |-> "", callback |-> "", result |-> "none"]]
    /\ dialogs = {}
    /\ app_calls = [w \in Workers |-> 0]

\* SessionManager.__init__, but for the callback it is given
InitSession ==
    /\ _running = FALSE
    /\ last_activity = 0
    /\ now = 0
    /\ timeout_thread = 0
    /\ monitors = [m \in Monitors |-> "none"]
    /\ _lock = 0
    /\ callers = [c \in Callers |-> "idle"]
    /\ callbacks = 0
    /\ fired = 0
    /\ stopped = FALSE

InitVault ==
    /\ disk_exists \in BOOLEAN
    /\ disk = IF disk_exists THEN ExistingVault ELSE EmptyFile
    /\ handle = [c \in Containers |-> FALSE]
    /\ metadata = FreshMetadata
    /\ file_data = <<>>
    /\ blob_mutable = TRUE
    /\ dirty = FALSE
    /\ pc = "idle"
    /\ pending = EmptyFile
    /\ wpos = 0
    /\ before = EmptyFile
    /\ saved = IF disk_exists
               THEN [valid |-> TRUE, pw |-> "pw1", metadata |-> create_empty,
                     file_data |-> <<>>]
               ELSE NotSaved
    /\ tampered = "none"
    /\ tamper_done = FALSE
    /\ crashed = FALSE
    /\ loaded = FALSE
    /\ InitAsync
    /\ InitSession

Init ==
    /\ InitVault
    /\ last = Result("init", "ok", "", "")
    /\ lock_callback = "plain"

vfs_vars == <<metadata, file_data, blob_mutable, dirty, loaded>>
write_vars == <<pc, pending, wpos, before>>
hist_vars == <<saved, tampered, tamper_done, crashed>>

\* VaultContainer.open: mode r+b on an existing file, w+b (create) otherwise.
\* No lock is taken: the portalocker/msvcrt calls are commented out.
open_takes_lock == FALSE

Open(c) ==
    /\ c = 1 => pc = "idle"
    /\ ~handle[c]
    /\ open_takes_lock => \A o \in Containers : ~handle[o]
    /\ handle' = [handle EXCEPT ![c] = TRUE]
    /\ disk_exists' = TRUE
    /\ last' = IF c = 1 THEN Result("open", "ok", "", "") ELSE last
    /\ UNCHANGED <<disk, vfs_vars, write_vars, hist_vars>>
    /\ UNCHANGED <<async_vars, session_vars>>

\* VaultContainer.close
Close(c) ==
    /\ c = 1 => pc = "idle"
    /\ handle[c]
    /\ handle' = [handle EXCEPT ![c] = FALSE]
    /\ last' = IF c = 1 THEN Result("close", "ok", "", "") ELSE last
    /\ UNCHANGED <<disk_exists, disk, vfs_vars, write_vars, hist_vars>>
    /\ UNCHANGED <<async_vars, session_vars>>

\* VirtualFileSystem(container) followed by metadata = create_empty(): the
\* in-memory empty vault.
NewVault ==
    /\ pc = "idle"
    /\ metadata' = create_empty
    /\ file_data' = <<>>
    /\ blob_mutable' = TRUE
    /\ dirty' = FALSE
    /\ loaded' = FALSE
    /\ last' = Result("new", "ok", "", "")
    /\ UNCHANGED <<disk_exists, disk, handle, write_vars, hist_vars>>
    /\ UNCHANGED <<async_vars, session_vars>>

\* bytes (immutable) is what Container.load returns and VFS.load stores.
load_stores_mutable == FALSE

\* VirtualFileSystem.load
VfsLoad(password) ==
    /\ pc = "idle"
    /\ LET r == load(handle[1], disk, password)
       IN  IF r.kind = "ok"
           THEN /\ metadata' = r.metadata
                /\ file_data' = r.file_data
                /\ blob_mutable' = load_stores_mutable
                /\ dirty' = FALSE
                /\ loaded' = TRUE
                /\ last' = [Result("load", "ok", "", password)
                               EXCEPT !.crypto = r.crypto]
           ELSE \* except ContainerError: anything else passes through
                /\ last' = [Result("load", IF r.kind = "ContainerError"
                                           THEN "VfsError" ELSE r.kind,
                                   r.detail, password)
                               EXCEPT !.crypto = r.crypto]
                /\ UNCHANGED vfs_vars
    /\ UNCHANGED <<disk_exists, disk, handle, write_vars, hist_vars>>
    /\ UNCHANGED <<async_vars, session_vars>>

\* ------------------------------------------------------------------ vfs.py
\* A deletion that drops the last size bytes of the blob instead.
delete_slice_tail(data, offset, size) ==
    SubSeq(data, 1, Len(data) - size)

\* del self.file_data[offset:offset + size]
delete_slice(data, offset, size) ==
    SubSeq(data, 1, offset) \o SubSeq(data, offset + size + 1, Len(data))

\* A loop that also moves the entries that start where the removed one did.
shift_offsets_ge(files, vault_path, offset, size) ==
    [q \in DOMAIN files \ {vault_path} |->
        IF files[q].offset >= offset
        THEN [files[q] EXCEPT !.offset = @ - size]
        ELSE files[q]]

\* The loop of remove_file over the entries, then the deletion of the entry:
\* every entry whose offset is greater than the removed one moves down by size.
shift_offsets(files, vault_path, offset, size) ==
    [q \in DOMAIN files \ {vault_path} |->
        IF files[q].offset > offset
        THEN [files[q] EXCEPT !.offset = @ - size]
        ELSE files[q]]

\* self.metadata["files"][vault_path] = {...}
insert_entry(files, vault_path, offset, size) ==
    [q \in DOMAIN files \cup {vault_path} |->
        IF q = vault_path THEN [offset |-> offset, size |-> size, kids |-> {}]
        ELSE files[q]]

\* The order of the dict after del files[vault_path].
RECURSIVE order_without(_, _)
order_without(order, vault_path) ==
    IF order = <<>> THEN <<>>
    ELSE IF Head(order) = vault_path THEN Tail(order)
    ELSE <<Head(order)>> \o order_without(Tail(order), vault_path)

\* VirtualFileSystem.add_file, for an existing source file holding content
\* and a vault path already in normalized form.
AddFile(content, vault_path) ==
    /\ pc = "idle"
    /\ IF ~metadata.has_files
       THEN /\ last' = [Result("add", "KeyError", "files", "")
                           EXCEPT !.path = vault_path]
            /\ UNCHANGED vfs_vars
       ELSE IF vault_path \in DOMAIN metadata.files
       THEN /\ last' = [Result("add", "VfsError", "exists", "")
                           EXCEPT !.path = vault_path]
            /\ UNCHANGED vfs_vars
       ELSE IF ~blob_mutable
       THEN \* bytes has no extend: AttributeError, wrapped
            /\ last' = [Result("add", "VfsError", "immutable_blob", "")
                           EXCEPT !.path = vault_path]
            /\ UNCHANGED vfs_vars
       ELSE /\ file_data' = file_data \o content
            /\ metadata' = [metadata EXCEPT
                              !.files = insert_entry(@, vault_path, Len(file_data),
                                                     Len(content)),
                              !.order = Append(@, vault_path)]
            /\ dirty' = TRUE
            /\ last' = [Result("add", "ok", "", "")
                           EXCEPT !.path = vault_path, !.arg = content]
            /\ UNCHANGED <<blob_mutable, loaded>>
    /\ UNCHANGED <<disk_exists, disk, handle, write_vars, hist_vars>>
    /\ UNCHANGED <<async_vars, session_vars>>

\* VirtualFileSystem.remove_file
RemoveFile(vault_path) ==
    /\ pc = "idle"
    /\ IF ~metadata.has_files
       THEN /\ last' = [Result("remove", "KeyError", "files", "")
                           EXCEPT !.path = vault_path]
            /\ UNCHANGED vfs_vars
       ELSE IF vault_path \notin DOMAIN metadata.files
       THEN /\ last' = [Result("remove", "VfsError", "not_found", "")
                           EXCEPT !.path = vault_path]
            /\ UNCHANGED vfs_vars
       ELSE IF ~blob_mutable
       THEN \* bytes does not support item deletion: TypeError, wrapped
            /\ last' = [Result("remove", "VfsError", "immutable_blob", "")
                           EXCEPT !.path = vault_path]
            /\ UNCHANGED vfs_vars
       ELSE LET info == metadata.files[vault_path]
            IN  /\ file_data' = delete_slice(file_data, info.offset, info.size)
                /\ metadata' = [metadata EXCEPT
                                  !.files = shift_offsets(@, vault_path, info.offset,
                                                          info.size),
                                  !.order = order_without(@, vault_path)]
                /\ dirty' = TRUE
                /\ last' = [Result("remove", "ok", "", "")
                           EXCEPT !.path = vault_path]
                /\ UNCHANGED <<blob_mutable, loaded>>
    /\ UNCHANGED <<disk_exists, disk, handle, write_vars, hist_vars>>
    /\ UNCHANGED <<async_vars, session_vars>>

\* VirtualFileSystem.get_total_size / get_file_count
get_total_size ==
    LET RECURSIVE Sum(_)
        Sum(ps) == IF ps = {} THEN 0
                   ELSE LET p == CHOOSE x \in ps : TRUE
                        IN  metadata.files[p].size + Sum(ps \ {p})
    IN  Sum(DOMAIN metadata.files)

get_file_count == Cardinality(DOMAIN metadata.files)

\* ------------------------------------------------------------------ paths
\* str.replace("\\", "/")
replace_backslash(path) ==
    [i \in 1..Len(path) |-> IF path[i] = BACKSLASH THEN SLASH ELSE path[i]]

\* str.strip("/")
RECURSIVE lstrip(_)
lstrip(s) == IF s # <<>> /\ s[1] = SLASH THEN lstrip(Tail(s)) ELSE s

RECURSIVE rstrip(_)
rstrip(s) ==
    IF s # <<>> /\ s[Len(s)] = SLASH THEN rstrip(SubSeq(s, 1, Len(s) - 1)) ELSE s

strip(s) == rstrip(lstrip(s))

\* VirtualFileSystem._normalize_path
normalize_path(path) ==
    LET normalized == strip(replace_backslash(path))
    IN  IF normalized # <<>> /\ normalized[1] # SLASH
        THEN <<SLASH>> \o normalized
        ELSE normalized

\* str.split("/")
RECURSIVE split(_)
split(s) ==
    IF \A i \in 1..Len(s) : s[i] # SLASH THEN <<s>>
    ELSE LET k == CHOOSE i \in 1..Len(s) :
                      s[i] = SLASH /\ \A j \in 1..(i - 1) : s[j] # SLASH
         IN  <<SubSeq(s, 1, k - 1)>> \o split(SubSeq(s, k + 1, Len(s)))

\* The segments of the stored path p, file_path.strip("/").split("/"): path 1
\* is a file at the top, path 2 a file in a directory named as path 1 is, and
\* every further path a file at the top.
PathSegs(p) == IF p = 1 THEN <<1>> ELSE IF p = 2 THEN <<1, 2>> ELSE <<p>>

\* The keys a file map can have: the paths, and 0, the empty string.
Keys == {0} \cup Paths

\* The key of p as a string: a slash before every segment.
RECURSIVE slashed(_)
slashed(segs) ==
    IF segs = <<>> THEN <<>> ELSE <<SLASH, Head(segs)>> \o slashed(Tail(segs))

Spell(p) == IF p = 0 THEN <<>> ELSE slashed(PathSegs(p))

\* pathlib.Path(s) on a POSIX host: rooted or not, and the segments, each a
\* string.  (A string that starts with exactly two slashes is taken as rooted
\* at "/".)
PurePath(s) ==
    [abs |-> s # <<>> /\ s[1] = SLASH,
     segs |-> SelectSeq(split(s), LAMBDA x : x # <<>>)]

\* extract_dir / file_path: an absolute right operand replaces the left one.
join(a, b) == IF b.abs THEN b ELSE [abs |-> a.abs, segs |-> a.segs \o b.segs]

\* Path.parent
parent(a) ==
    [a EXCEPT !.segs = IF @ = <<>> THEN <<>> ELSE SubSeq(@, 1, Len(@) - 1)]

\* The working directory of the process.
Cwd == << <<1>> >>

\* Path.resolve(): the segments of the absolute path, ".." taken out (".."
\* of the root is the root).
RECURSIVE collapse(_, _)
collapse(stack, segs) ==
    IF segs = <<>> THEN stack
    ELSE IF Head(segs) = <<DOTDOT>>
    THEN collapse(IF stack = <<>> THEN <<>> ELSE SubSeq(stack, 1, Len(stack) - 1),
                  Tail(segs))
    ELSE collapse(Append(stack, Head(segs)), Tail(segs))

resolve(a) == collapse(<<>>, IF a.abs THEN a.segs ELSE Cwd \o a.segs)

\* Path.parents of a resolved path
parents(t) == { SubSeq(t, 1, k) : k \in 0..(Len(t) - 1) }

\* What resolve() can do where the path cannot be resolved: ValueError (a
\* null character), OSError, and RuntimeError (a loop of symbolic links, on
\* Python 3.11 and 3.12, which the program supports).
Raises == {"none", "ValueError", "OSError", "RuntimeError"}

\* except (ValueError, OSError)
Caught == {"ValueError", "OSError"}

\* VaultContainer.validate_extraction_path, where it returns
validate_extraction_path(file_path, extract_dir, raises) ==
    IF raises \in Caught THEN FALSE
    ELSE LET target_path == resolve(join(extract_dir, PurePath(file_path)))
             extract_dir_resolved == resolve(extract_dir)
         IN  \/ extract_dir_resolved \in parents(target_path)
             \/ target_path = extract_dir_resolved

RawPaths == Strings({SLASH, BACKSLASH} \cup Names, MaxRawLen)
Candidates == Strings({SLASH, DOTDOT} \cup Names, MaxCandLen)
ExtractDirs == { PurePath(s) : s \in Strings({SLASH, DOTDOT, 1}, MaxDirLen) }

\* The directories the user extracts into.
ExtractInto == { <<SLASH>>, <<SLASH, 1>>, <<SLASH, 2>>, <<2>> }

other_vars == <<disk_exists, disk, handle, vfs_vars, write_vars, hist_vars,
                async_vars, session_vars>>

\* A call of one of the two path functions is about to be made: of
\* _normalize_path with a string, or of validate_extraction_path with a
\* string, a directory and what resolve() does.
InitPath ==
    /\ InitVault
    /\ lock_callback = "plain"
    /\ \/ \E raw \in RawPaths :
            last = [Result("normalize", "called", "", "") EXCEPT !.arg = raw]
       \/ \E file_path \in Candidates, extract_dir \in ExtractDirs, raises \in Raises :
            last = [Result("validate", "called", "", "")
                      EXCEPT !.arg = [file_path |-> file_path,
                                      extract_dir |-> extract_dir,
                                      raises |-> raises]]

\* The call of _normalize_path returns.
Normalize ==
    /\ last.op = "normalize"
    /\ last.kind = "called"
    /\ last' = [last EXCEPT !.kind = "ok", !.ret = normalize_path(last.arg)]
    /\ UNCHANGED other_vars

\* The call of validate_extraction_path returns, or raises what it does not
\* catch.
Validate ==
    /\ last.op = "validate"
    /\ last.kind = "called"
    /\ last' = IF last.arg.raises \in {"none"} \cup Caught
               THEN [last EXCEPT !.kind = "ok",
                                 !.ret = validate_extraction_path(last.arg.file_path,
                                                                  last.arg.extract_dir,
                                                                  last.arg.raises)]
               ELSE [last EXCEPT !.kind = last.arg.raises]
    /\ UNCHANGED other_vars

\* add_file and remove_file with the vault path as the caller spells it.
AddSpelled(content, raw) ==
    \E p \in Keys : Spell(p) = normalize_path(raw) /\ AddFile(content, p)

RemoveSpelled(raw) ==
    \E p \in Keys : Spell(p) = normalize_path(raw) /\ RemoveFile(p)

\* AsyncOperations.extract_files for one vault path, and
\* VirtualFileSystem.extract_file, on a host that takes every write.
ExtractFile(vault_path, extract_dir) ==
    /\ pc = "idle"
    /\ LET filename == split(Spell(vault_path))[Len(split(Spell(vault_path)))]
           extract_path == extract_dir \o <<SLASH>> \o filename
           dest_path == PurePath(extract_path)
           call == [Result("extract", "ok", "", "")
                      EXCEPT !.path = vault_path,
                             !.arg = [extract_dir |-> PurePath(extract_dir),
                                      dest_path |-> dest_path]]
       IN  IF ~metadata.has_files
           THEN last' = [call EXCEPT !.kind = "KeyError", !.detail = "files"]
           ELSE IF vault_path \notin DOMAIN metadata.files
           THEN last' = [call EXCEPT !.kind = "VfsError", !.detail = "not_found"]
           ELSE IF ~validate_extraction_path(Spell(vault_path), parent(dest_path), "none")
           THEN last' = [call EXCEPT !.kind = "VfsError", !.detail = "unsafe"]
           ELSE LET file_info == metadata.files[vault_path]
                    content == SubSeq(file_data, file_info.offset + 1,
                                      file_info.offset + file_info.size)
                IN  last' = [call EXCEPT !.ret = <<[mkdir |-> parent(dest_path),
                                                    file |-> dest_path,
                                                    content |-> content]>>]
    /\ UNCHANGED other_vars
    /\ UNCHANGED <<async_vars, session_vars>>

\* The tree get_directory_tree returns maps a top-level name to a node:
\* entry is the path whose FileEntry dict the node is (0: a dict made by the
\* loop), dir the (name, path) pairs of the dict made by the loop.
EmptyTree == [k \in {} |-> 0]

put(tree, name, node) ==
    [k \in DOMAIN tree \cup {name} |-> IF k = name THEN node ELSE tree[k]]

\* One round of the loop of get_directory_tree, for a stored path of one or
\* two segments: current[part] = entry at the last part, after stepping into
\* (and making, if absent) current[part] at the part before.  Where that is
\* the FileEntry dict of another path, the assignment adds a key to it.
tree_insert(st, p) ==
    LET parts == PathSegs(p)
    IN  IF Len(parts) = 1
        THEN [st EXCEPT !.tree = put(@, parts[1], [entry |-> p, dir |-> {}])]
        ELSE LET tree1 == IF parts[1] \in DOMAIN st.tree THEN st.tree
                          ELSE put(st.tree, parts[1], [entry |-> 0, dir |-> {}])
                 current == tree1[parts[1]]
             IN  IF current.entry = 0
                 THEN [st EXCEPT !.tree =
                         put(tree1, parts[1],
                             [current EXCEPT !.dir =
                                { x \in @ : x[1] # parts[2] } \cup {<<parts[2], p>>}])]
                 ELSE [st EXCEPT !.tree = tree1,
                                 !.files[current.entry].kids = @ \cup {parts[2]}]

RECURSIVE tree_build(_, _)
tree_build(st, order) ==
    IF order = <<>> THEN st
    ELSE tree_build(tree_insert(st, Head(order)), Tail(order))

\* VirtualFileSystem.get_directory_tree
GetDirectoryTree ==
    /\ pc = "idle"
    /\ IF ~metadata.has_files
       THEN /\ last' = Result("tree", "KeyError", "files", "")
            /\ UNCHANGED metadata
       ELSE LET st == tree_build([tree |-> EmptyTree, files |-> metadata.files],
                                 metadata.order)
            IN  /\ metadata' = [metadata EXCEPT !.files = st.files]
                /\ last' = [Result("tree", "ok", "", "") EXCEPT !.ret = st.tree]
    /\ UNCHANGED <<disk_exists, disk, handle, file_data, blob_mutable, dirty, loaded,
                   write_vars, hist_vars>>
    /\ UNCHANGED <<async_vars, session_vars>>

\* ------------------------------------------------- create_new, save, write
\* VaultContainer.create_new.  The call derive_key(password, salt,
\* fast_mode=fast_mode) comes first; what follows it is the rest of the body:
\* encrypt(payload, key) with no associated data, then _build_header, which
\* reads self.crypto.BCRYPT_ROUNDS (no such attribute) unless fast_mode.
CreateNew(password, fast_mode) ==
    /\ pc = "idle"
    /\ IF ~handle[1]
       THEN /\ last' = Result("create_new", "ContainerError", "not_opened", "")
            /\ UNCHANGED write_vars
       ELSE IF ~derive_key_accepts_fast_mode
       THEN /\ last' = Result("create_new", "TypeError", "fast_mode", "")
            /\ UNCHANGED write_vars
       ELSE IF ~fast_mode
       THEN /\ last' = Result("create_new", "AttributeError", "BCRYPT_ROUNDS", "")
            /\ UNCHANGED write_vars
       ELSE \E salt \in Salts, nonce \in Nonces :
            /\ pending' = Frame(build_header(salt, 8), nonce,
                                encrypt(nonce, serialize_payload(create_empty, <<>>),
                                        derive_key(password, salt), NoHeader))
            /\ pc' = "writing"
            /\ wpos' = 0
            /\ before' = disk
            /\ last' = [Result("create_new", "running", "", "")
                           EXCEPT !.crypto = <<"derive_key", "encrypt">>]
    /\ UNCHANGED <<disk_exists, disk, handle, vfs_vars, hist_vars>>
    /\ UNCHANGED <<async_vars, session_vars>>

\* A save that calls the container whether or not the vault is dirty.
SaveBegin_always(password) ==
    /\ pc = "idle"
    /\ IF ~handle[1]
       THEN /\ last' = Result("save", "VfsError", "not_opened", "")
            /\ UNCHANGED write_vars
       ELSE IF parse_header(disk.n, disk.header) # "ok"
       THEN /\ last' = Result("save", "VfsError", parse_header(disk.n, disk.header), "")
            /\ UNCHANGED write_vars
       ELSE \E nonce \in Nonces :
            /\ pending' = Frame(disk.header, nonce,
                                encrypt(nonce, serialize_payload(metadata, file_data),
                                        derive_key(password, disk.header.salt),
                                        disk.header))
            /\ pc' = "writing"
            /\ wpos' = 0
            /\ before' = disk
            /\ last' = [Result("save", "running", "", "")
                           EXCEPT !.crypto = <<"derive_key", "encrypt">>]
    /\ UNCHANGED <<disk_exists, disk, handle, vfs_vars, hist_vars>>
    /\ UNCHANGED <<async_vars, session_vars>>

\* A save that draws a new salt and writes it into the header.
SaveBegin_fresh_salt(password) ==
    /\ pc = "idle"
    /\ IF ~dirty
       THEN /\ last' = Result("save", "ok", "clean", "")
            /\ UNCHANGED write_vars
       ELSE IF ~handle[1]
       THEN /\ last' = Result("save", "VfsError", "not_opened", "")
            /\ UNCHANGED write_vars
       ELSE IF parse_header(disk.n, disk.header) # "ok"
       THEN /\ last' = Result("save", "VfsError", parse_header(disk.n, disk.header), "")
            /\ UNCHANGED write_vars
       ELSE \E nonce \in Nonces, salt \in Salts :
            LET header == [disk.header EXCEPT !.salt = salt]
                key == derive_key(password, salt)
                payload == serialize_payload(metadata, file_data)
            IN  /\ pending' = Frame(header, nonce, encrypt(nonce, payload, key, header))
                /\ pc' = "writing"
                /\ wpos' = 0
                /\ before' = disk
                /\ last' = [Result("save", "running", "", "")
                               EXCEPT !.crypto = <<"derive_key", "encrypt">>]
    /\ UNCHANGED <<disk_exists, disk, handle, vfs_vars, hist_vars>>
    /\ UNCHANGED <<async_vars, session_vars>>

\* VirtualFileSystem.save and VaultContainer.save up to the call of
\* _write_atomic(header + nonce + ciphertext).
SaveBegin(password) ==
    /\ pc = "idle"
    /\ IF ~dirty
       THEN /\ last' = Result("save", "ok", "clean", "")
            /\ UNCHANGED write_vars
       ELSE IF ~handle[1]
       THEN /\ last' = Result("save", "VfsError", "not_opened", "")
            /\ UNCHANGED write_vars
       ELSE IF parse_header(disk.n, disk.header) # "ok"
       THEN /\ last' = Result("save", "VfsError", parse_header(disk.n, disk.header), "")
            /\ UNCHANGED write_vars
       ELSE \E nonce \in Nonces :   \* generate_nonce(): os.urandom(12)
            LET header == disk.header
                key == derive_key(password, header.salt)
                payload == serialize_payload(metadata, file_data)
            IN  /\ pending' = Frame(header, nonce, encrypt(nonce, payload, key, header))
                /\ pc' = "writing"
                /\ wpos' = 0
                /\ before' = disk
                /\ last' = [Result("save", "running", "", "")
                               EXCEPT !.crypto = <<"derive_key", "encrypt">>]
    /\ UNCHANGED <<disk_exists, disk, handle, vfs_vars, hist_vars>>
    /\ UNCHANGED <<async_vars, session_vars>>

Max(a, b) == IF a > b THEN a ELSE b

\* The file after the first k chunks of frame f have been written over d
\* from position 0, before truncate.
write_prefix(d, f, k) ==
    [n |-> Max(d.n, k),
     header |-> IF k >= 1 THEN f.header ELSE d.header,
     nonce |-> IF k >= 2 THEN f.nonce ELSE d.nonce,
     ct |-> IF k >= 3 THEN f.ct ELSE d.ct,
     clen |-> IF k >= 3 THEN Max(IF d.n = 3 THEN d.clen ELSE 0, f.clen) ELSE d.clen]

\* _write_atomic: seek(0); write(data); flush(); fsync() -- the data reaches
\* the open vault file itself, one chunk at a time.
WriteStep ==
    /\ pc = "writing"
    /\ wpos < 3
    /\ wpos' = wpos + 1
    /\ disk' = write_prefix(before, pending, wpos + 1)
    /\ saved' = IF disk' # disk THEN NotSaved ELSE saved
    /\ tampered' = IF disk' # disk THEN "none" ELSE tampered
    /\ UNCHANGED <<disk_exists, handle, vfs_vars, pc, pending, before, last,
                   tamper_done, crashed>>
    /\ UNCHANGED <<async_vars, session_vars>>

\* _write_atomic: truncate() after the last byte written; then save returns
\* and VirtualFileSystem.save clears the dirty flag.
WriteFinish ==
    /\ pc = "writing"
    /\ wpos = 3
    /\ disk' = [disk EXCEPT !.clen = pending.clen]
    /\ pc' = "idle"
    /\ wpos' = 0
    /\ dirty' = IF last.op = "save" THEN FALSE ELSE dirty
    /\ last' = [last EXCEPT !.kind = "ok"]
    /\ pending' = EmptyFile
    /\ before' = EmptyFile
    /\ saved' = IF last.op = "save"
                THEN [valid |-> TRUE, pw |-> pending.ct.key[1], metadata |-> metadata,
                      file_data |-> file_data]
                ELSE NotSaved
    /\ tampered' = "none"
    /\ UNCHANGED <<disk_exists, handle, metadata, file_data, blob_mutable,
                   loaded, tamper_done, crashed>>
    /\ UNCHANGED <<async_vars, session_vars>>

\* _write_atomic: write, flush, fsync or truncate raises (an I/O error, a
\* full disk): ContainerError, which VirtualFileSystem.save wraps.
WriteFail ==
    /\ pc = "writing"
    /\ pc' = "idle"
    /\ wpos' = 0
    /\ last' = [last EXCEPT !.kind = IF last.op = "save" THEN "VfsError"
                                     ELSE "ContainerError",
                            !.detail = "write_failed",
                            !.kept = (disk = before)]
    /\ pending' = EmptyFile
    /\ before' = EmptyFile
    /\ UNCHANGED <<disk_exists, disk, handle, vfs_vars, hist_vars>>
    /\ UNCHANGED <<async_vars, session_vars>>

\* The process dies inside _write_atomic (killed, power loss): the handle and
\* the in-memory vault are gone, the file keeps what had been written.
Crash ==
    /\ pc = "writing"
    /\ ~crashed
    /\ crashed' = TRUE
    /\ pc' = "idle"
    /\ wpos' = 0
    /\ handle' = [handle EXCEPT ![1] = FALSE]
    /\ metadata' = FreshMetadata
    /\ file_data' = <<>>
    /\ blob_mutable' = TRUE
    /\ dirty' = FALSE
    /\ loaded' = FALSE
    /\ last' = [Result("crash", "ok", "", "") EXCEPT !.kept = (disk = before)]
    /\ pending' = EmptyFile
    /\ before' = EmptyFile
    /\ UNCHANGED <<disk_exists, disk, saved, tampered, tamper_done>>
    /\ UNCHANGED <<async_vars, session_vars>>

\* ------------------------------------------------------------ environment
Parts == {"magic", "version", "salt", "p1", "p2", "p3", "nonce", "ct"}

\* One byte of a complete frame at rest is changed behind the program.
Tamper(part) ==
    /\ pc = "idle"
    /\ ~tamper_done
    /\ saved.valid
    /\ tampered = "none"
    /\ CiphertextWhole(disk)
    /\ \E v \in (Salts \cup Nonces) :
        /\ part = "salt" => v \in Salts \ {disk.header.salt}
        /\ part = "nonce" => v \in Nonces \ {disk.nonce}
        /\ part \notin {"salt", "nonce"} => v = 1
        /\ disk' =
            CASE part = "magic" -> [disk EXCEPT !.header.magic = "XYVAULT2"]
              [] part = "version" -> [disk EXCEPT !.header.version = @ + 1]
              [] part = "salt" -> [disk EXCEPT !.header.salt = v]
              [] part = "p1" -> [disk EXCEPT !.header.p1 = @ + 1]
              [] part = "p2" -> [disk EXCEPT !.header.p2 = @ + 1]
              [] part = "p3" -> [disk EXCEPT !.header.p3 = @ + 1]
              [] part = "nonce" -> [disk EXCEPT !.nonce = v]
              [] part = "ct" -> [disk EXCEPT !.ct.flipped = TRUE]
    /\ tampered' = part
    /\ tamper_done' = TRUE
    /\ last' = Result("tamper", "ok", part, "")
    /\ UNCHANGED <<disk_exists, handle, vfs_vars, write_vars, saved, crashed>>
    /\ UNCHANGED <<async_vars, session_vars>>

\* Payloads another writer that knows the password can have sealed in the
\* frame: not a zlib stream; a stream of no bytes; a metadata length beyond
\* the payload; metadata that is not JSON; empty metadata; the JSON object {}
\* before two bytes; an empty vault.
ForeignPayloads ==
    { <<<<0, 0>>>>, <<>>, compress(<<3, 1>>), compress(<<1, 7>>), compress(<<0>>),
      compress(<<1, 0, 5, 6>>), serialize_payload(create_empty, <<>>) }

\* The vault file is replaced, behind the program, by a frame that another
\* writer sealed under password "pw1" around payload pt.
Foreign(pt) ==
    /\ pc = "idle"
    /\ ~tamper_done
    /\ LET header == build_header(1, 8)
       IN  disk' = Frame(header, 1, encrypt(1, pt, derive_key("pw1", 1), header))
    /\ disk_exists' = TRUE
    /\ saved' = NotSaved
    /\ tamper_done' = TRUE
    /\ last' = Result("foreign", "ok", "", "")
    /\ UNCHANGED <<handle, vfs_vars, write_vars, tampered, crashed>>
    /\ UNCHANGED <<async_vars, session_vars>>

\* The calls of one process on its container, and on its vault apart from
\* add_file and remove_file.
ProgramCore ==
    \/ Open(1)
    \/ Close(1)
    \/ NewVault
    \/ \E pw \in Passwords : VfsLoad(pw)
    \/ \E pw \in Passwords, fast \in BOOLEAN : CreateNew(pw, fast)
    \/ \E pw \in Passwords : SaveBegin(pw)
    \/ WriteStep
    \/ WriteFinish

Program ==
    \/ ProgramCore
    \/ \E content \in Contents, p \in Paths : AddFile(content, p)
    \/ \E p \in Paths : RemoveFile(p)

\* The program alone, on a disk that takes every write.
Next == Program

Spec == Init /\ [][Next]_vars

\* The program, adding two-byte files only, and an adversary who changes one
\* byte of the file at rest.
NextTamper ==
    \/ ProgramCore
    \/ \E p \in Paths : AddFile(<<5, 6>>, p)
    \/ \E p \in Paths : RemoveFile(p)
    \/ \E part \in Parts : Tamper(part)

SpecTamper == Init /\ [][NextTamper]_vars

\* The program on a disk that can fail and a machine that can stop during a
\* write, beside a second process that opens the same vault path.
NextFault ==
    \/ Program
    \/ WriteFail
    \/ Crash
    \/ Open(2)
    \/ Close(2)

SpecFault == Init /\ [][NextFault]_vars

\* The program, adding two-byte files only, on a disk that can fail a write.
NextDisk ==
    \/ ProgramCore
    \/ \E p \in Paths : AddFile(<<5, 6>>, p)
    \/ \E p \in Paths : RemoveFile(p)
    \/ WriteFail

SpecDisk == Init /\ [][NextDisk]_vars

\* The vault in memory: the calls that use neither the container nor the disk.
NextVfs ==
    \/ NewVault
    \/ \E content \in Contents, p \in Paths : AddFile(content, p)
    \/ \E p \in Paths : RemoveFile(p)
    \/ GetDirectoryTree
    \/ \E p \in Paths, dir \in ExtractInto : ExtractFile(p, dir)

SpecVfs == Init /\ [][NextVfs]_vars

\* The two path functions, on every input of the bounds.
NextPath ==
    \/ Normalize
    \/ Validate

SpecPath == InitPath /\ [][NextPath]_vars

\* The vault in memory, its paths spelled by the caller.
NextKeys ==
    \/ NewVault
    \/ \E raw \in RawPaths : AddSpelled(<<5, 6>>, raw)
    \/ \E raw \in RawPaths : RemoveSpelled(raw)

SpecKeys == Init /\ [][NextKeys]_vars

\* The program's loads and in-memory changes, on a vault file that another
\* writer can have produced.
NextLoad ==
    \/ Open(1)
    \/ Close(1)
    \/ NewVault
    \/ \E pw \in Passwords : VfsLoad(pw)
    \/ \E p \in Paths : AddFile(<<5, 6>>, p)
    \/ \E pt \in ForeignPayloads : Foreign(pt)

SpecLoad == Init /\ [][NextLoad]_vars

\* The first n bytes of the source file that is added under vault path p:
\* every source file has bytes of its own.
Source(p, n) == [i \in 1..n |-> 10 * p + i]
SourceLens == {0, 1, 2}

\* The vault in memory, new or loaded, with add_file reading a different
\* source file for every path.
NextContent ==
    \/ Open(1)
    \/ Close(1)
    \/ NewVault
    \/ \E pw \in Passwords : VfsLoad(pw)
    \/ \E p \in Paths, n \in SourceLens : AddFile(Source(p, n), p)
    \/ \E p \in Paths : RemoveFile(p)

SpecContent == Init /\ [][NextContent]_vars

\* ------------------------------------------------------------ async_ops.py
vault_vars == <<disk_exists, disk, handle, vfs_vars, write_vars, last, hist_vars>>

\* The operations AsyncOperations runs on the open vault's VFS.
Operations == {"add_files", "extract_files", "remove_files", "save_vault"}

\* AsyncOperations._operation_complete(result), were it called for worker w:
\* the dialog is closed and forgotten, the worker's callback is called, and
\* current_worker is reset.
operation_complete(w) ==
    /\ dialogs' = IF progress_dialog # 0 THEN dialogs \ {progress_dialog} ELSE dialogs
    /\ progress_dialog' = 0
    /\ app_calls' = IF current_worker # 0 /\ workers[current_worker].callback = "app"
                    THEN [app_calls EXCEPT ![w] = @ + 1]
                    ELSE app_calls
    /\ current_worker' = 0

\* add_files / extract_files / remove_files / save_vault: the method builds
\* the operation and calls _run_operation, which opens a progress dialog,
\* creates the worker with callback _operation_complete, replaces that
\* callback by the application's, and starts the thread.  Nothing in
\* AsyncOperations looks at current_worker first.  In the application the
\* three buttons respond only while no progress dialog holds the grab;
\* save_vault comes from on_closing, the window manager's close request.
RunOperation(w, operation) ==
    /\ workers[w].pc = "none"
    /\ \A v \in Workers : v < w => workers[v].pc # "none"
    /\ operation # "save_vault" => dialogs = {}
    /\ progress_dialog' = w
    /\ dialogs' = dialogs \cup {w}
    /\ current_worker' = w
    /\ workers' = [workers EXCEPT ![w] = [pc |-> "operation", operation |-> operation,
                                          callback |-> "app", result |-> "none"]]
    /\ UNCHANGED <<app_calls, vault_vars, session_vars>>

\* AsyncWorker.run: the operation returns (success) or raises (the exception
\* is caught and becomes a failed OperationResult).
WorkerRun(w, success) ==
    /\ workers[w].pc = "operation"
    /\ workers' = [workers EXCEPT ![w].pc = "callback",
                                  ![w].result = IF success THEN "success" ELSE "failed"]
    /\ UNCHANGED <<current_worker, progress_dialog, dialogs, app_calls,
                   vault_vars, session_vars>>

\* AsyncWorker.run: if self.callback: self.callback(self.result), on the
\* worker thread; then the thread ends.
WorkerCallback(w) ==
    /\ workers[w].pc = "callback"
    /\ workers' = [workers EXCEPT ![w].pc = "done"]
    /\ IF workers[w].callback = "_operation_complete"
       THEN operation_complete(w)
       ELSE /\ app_calls' = [app_calls EXCEPT ![w] = @ + 1]
            /\ UNCHANGED <<current_worker, progress_dialog, dialogs>>
    /\ UNCHANGED <<vault_vars, session_vars>>

\* The user closes the window of a progress dialog (ProgressDialog installs
\* no handler for the close request: the window is destroyed).
CloseDialog(d) ==
    /\ d \in dialogs
    /\ dialogs' = dialogs \ {d}
    /\ UNCHANGED <<current_worker, progress_dialog, workers, app_calls,
                   vault_vars, session_vars>>

\* The operations the application starts on its open vault and their worker
\* threads.
NextAsync ==
    \/ \E w \in Workers, operation \in Operations : RunOperation(w, operation)
    \/ \E w \in Workers, success \in BOOLEAN : WorkerRun(w, success)
    \/ \E w \in Workers : WorkerCallback(w)
    \/ \E d \in Workers : CloseDialog(d)

SpecAsync == Init /\ [][NextAsync]_vars

\* ------------------------------------------------------ session_manager.py
\* SessionManager(timeout_minutes, lock_callback): the timeout, in minutes of
\* the clock, and what the callback it is given does: there is none; it
\* touches nothing of the manager; it calls the named method of the manager.
timeout_minutes == 1
Callbacks == {"None", "plain", "stop_session", "update_activity",
              "get_time_until_timeout"}

\* inactive_minutes >= self.timeout_minutes
Inactive == now - last_activity >= timeout_minutes

\* The monitor threads that have not been created yet.
FreeMonitors == { m \in Monitors : monitors[m] = "none" }

manager_frame == <<vault_vars, async_vars, lock_callback>>

\* start_session, lines 30-32: with self._lock: last_activity = time.time();
\* _running = True.  (A call is begun only while a thread can still be
\* created for it.)
StartSession(c) ==
    /\ callers[c] = "idle"
    /\ _lock = 0
    /\ Cardinality(FreeMonitors) > Cardinality({ d \in Callers : callers[d] # "idle" })
    /\ last_activity' = now
    /\ _running' = TRUE
    /\ callers' = [callers EXCEPT ![c] = "check"]
    /\ fired' = 0
    /\ stopped' = FALSE
    /\ UNCHANGED <<now, timeout_thread, monitors, _lock, callbacks, manager_frame>>

\* start_session, line 34, after the lock was released:
\* if self.timeout_thread is None or not self.timeout_thread.is_alive()
StartCheck(c) ==
    /\ callers[c] = "check"
    /\ callers' = [callers EXCEPT ![c] =
                     IF timeout_thread = 0 \/ monitors[timeout_thread] = "dead"
                     THEN "create" ELSE "idle"]
    /\ UNCHANGED <<_running, last_activity, now, timeout_thread, monitors, _lock,
                   callbacks, fired, stopped, manager_frame>>

\* start_session, lines 35-36: self.timeout_thread = Thread(...); start()
StartCreate(c) ==
    /\ callers[c] = "create"
    /\ LET m == CHOOSE x \in FreeMonitors : \A y \in FreeMonitors : x <= y
       IN  /\ timeout_thread' = m
           /\ monitors' = [monitors EXCEPT ![m] = "while"]
    /\ callers' = [callers EXCEPT ![c] = "idle"]
    /\ UNCHANGED <<_running, last_activity, now, _lock, callbacks, fired, stopped,
                   manager_frame>>

\* stop_session: with self._lock: self._running = False
StopSession(c) ==
    /\ callers[c] = "idle"
    /\ _lock = 0
    /\ _running' = FALSE
    /\ stopped' = TRUE
    /\ UNCHANGED <<last_activity, now, timeout_thread, monitors, _lock, callers,
                   callbacks, fired, manager_frame>>

\* update_activity: with self._lock: self.last_activity = time.time()
UpdateActivity(c) ==
    /\ callers[c] = "idle"
    /\ _lock = 0
    /\ last_activity' = now
    /\ UNCHANGED <<_running, now, timeout_thread, monitors, _lock, callers,
                   callbacks, fired, stopped, manager_frame>>

\* _monitor_activity, line 50: while self._running (read without the lock);
\* a thread that leaves the loop is alive until its function has returned.
MonitorWhile(m) ==
    /\ monitors[m] = "while"
    /\ monitors' = [monitors EXCEPT ![m] = IF _running THEN "sleep" ELSE "exit"]
    /\ UNCHANGED <<_running, last_activity, now, timeout_thread, _lock, callers,
                   callbacks, fired, stopped, manager_frame>>

\* A monitor that does not look at _running again once it holds the lock.
MonitorCheck_no_recheck(m) ==
    /\ monitors[m] = "sleep"
    /\ _lock = 0
    /\ IF Inactive
       THEN /\ _running' = FALSE
            /\ IF lock_callback = "None"
               THEN monitors' = [monitors EXCEPT ![m] = "exit"] /\ UNCHANGED _lock
               ELSE monitors' = [monitors EXCEPT ![m] = "callback"] /\ _lock' = m
       ELSE /\ monitors' = [monitors EXCEPT ![m] = "while"]
            /\ UNCHANGED <<_running, _lock>>
    /\ UNCHANGED <<last_activity, now, timeout_thread, callers, callbacks, fired,
                   stopped, manager_frame>>

\* _monitor_activity, lines 51-66 up to the call of the callback: the sleep
\* is over, the thread takes the lock, leaves the loop if the session is not
\* running, and on a timeout clears _running and, still holding the lock,
\* goes on to call lock_callback if there is one.
MonitorCheck(m) ==
    /\ monitors[m] = "sleep"
    /\ _lock = 0
    /\ IF ~_running
       THEN /\ monitors' = [monitors EXCEPT ![m] = "exit"]
            /\ UNCHANGED <<_running, _lock>>
       ELSE IF Inactive
       THEN /\ _running' = FALSE
            /\ IF lock_callback = "None"
               THEN monitors' = [monitors EXCEPT ![m] = "exit"] /\ UNCHANGED _lock
               ELSE monitors' = [monitors EXCEPT ![m] = "callback"] /\ _lock' = m
       ELSE /\ monitors' = [monitors EXCEPT ![m] = "while"]
            /\ UNCHANGED <<_running, _lock>>
    /\ UNCHANGED <<last_activity, now, timeout_thread, callers, callbacks, fired,
                   stopped, manager_frame>>

\* _monitor_activity, line 65: self.lock_callback(), inside with self._lock.
\* A callback that calls stop_session, update_activity or
\* get_time_until_timeout comes to that method's with self._lock, a
\* threading.Lock its own thread holds: it waits there.  Any other callback
\* returns, the loop is left and the lock released.
MonitorCallback(m) ==
    /\ monitors[m] = "callback"
    /\ callbacks' = callbacks + 1
    /\ fired' = fired + 1
    /\ IF lock_callback = "plain"
       THEN monitors' = [monitors EXCEPT ![m] = "exit"] /\ _lock' = 0
       ELSE monitors' = [monitors EXCEPT ![m] = "blocked"] /\ UNCHANGED _lock
    /\ UNCHANGED <<_running, last_activity, now, timeout_thread, callers, stopped,
                   manager_frame>>

\* _monitor_activity returns: the thread is no longer alive.
MonitorExit(m) ==
    /\ monitors[m] = "exit"
    /\ monitors' = [monitors EXCEPT ![m] = "dead"]
    /\ UNCHANGED <<_running, last_activity, now, timeout_thread, _lock, callers,
                   callbacks, fired, stopped, manager_frame>>

\* A minute passes.
Tick ==
    /\ now < MaxTime
    /\ now' = now + 1
    /\ UNCHANGED <<_running, last_activity, timeout_thread, monitors, _lock, callers,
                   callbacks, fired, stopped, manager_frame>>

\* A session manager with any of the callbacks, beside an existing vault.
InitManager ==
    /\ InitVault
    /\ disk_exists
    /\ last = Result("init", "ok", "", "")
    /\ lock_callback \in Callbacks

\* The threads that call the session manager and its monitor threads.
NextSession ==
    \/ \E c \in Callers : StartSession(c)
    \/ \E c \in Callers : StartCheck(c)
    \/ \E c \in Callers : StartCreate(c)
    \/ \E c \in Callers : StopSession(c)
    \/ \E c \in Callers : UpdateActivity(c)
    \/ \E m \in Monitors : MonitorWhile(m)
    \/ \E m \in Monitors : MonitorCheck(m)
    \/ \E m \in Monitors : MonitorCallback(m)
    \/ \E m \in Monitors : MonitorExit(m)
    \/ Tick

SpecSession == InitManager /\ [][NextSession]_vars

\* Type and shape of the state.
TypeOK ==
    /\ disk_exists \in BOOLEAN
    /\ disk.n \in 0..3
    /\ handle \in [Containers -> BOOLEAN]
    /\ metadata.has_files \in BOOLEAN
    /\ DOMAIN metadata.files \subseteq Keys
    /\ blob_mutable \in BOOLEAN
    /\ dirty \in BOOLEAN
    /\ pc \in {"idle", "writing"}
    /\ wpos \in 0..3
    /\ current_worker \in {0} \cup Workers
    /\ progress_dialog \in {0} \cup Workers
    /\ dialogs \subseteq Workers
    /\ _running \in BOOLEAN
    /\ last_activity \in 0..MaxTime
    /\ now \in 0..MaxTime
    /\ timeout_thread \in {0} \cup Monitors
    /\ _lock \in {0} \cup Monitors
    /\ lock_callback \in Callbacks
    /\ callbacks \in 0..MaxMonitors

\* ----------------------------------------------------------------- claims
Files == metadata.files
End(p) == Files[p].offset + Files[p].size

SizeSum(ps) ==
    LET RECURSIVE Sum(_)
        Sum(qs) == IF qs = {} THEN 0
                   ELSE LET q == CHOOSE x \in qs : TRUE
                        IN  Files[q].size + Sum(qs \ {q})
    IN  Sum(ps)

\* C1: after any sequence of add_file and remove_file calls, every entry ends
\* inside the blob, the entries' byte ranges are pairwise disjoint, every
\* entry starts where the entries before it (in offset order) end, so the
\* ranges are contiguous from 0, and get_total_size() is the blob length.
C1_OffsetInvariant ==
    /\ \A p \in DOMAIN Files :
        /\ Files[p].offset >= 0
        /\ Files[p].size >= 0
        /\ End(p) <= Len(file_data)
        /\ Files[p].offset = SizeSum({q \in DOMAIN Files : Files[q].offset < Files[p].offset})
    /\ \A p, q \in DOMAIN Files :
        p # q => End(p) <= Files[q].offset \/ End(q) <= Files[p].offset
    /\ get_total_size = Len(file_data)

\* A remove has succeeded and left a two-byte file beside an empty blob
\* prefix: the vault holds one file, of two bytes.
C1_Witness ==
    /\ last.op = "remove"
    /\ last.kind = "ok"
    /\ Cardinality(DOMAIN Files) = 1
    /\ Len(file_data) = 2

\* C2: while a save or create_new is writing, the vault file holds either the
\* complete previous frame or the complete new frame.
C2_AtomicWrite ==
    pc = "writing" => disk = before \/ disk = pending

\* C3: a save that raises leaves the vault file as it was before the call.
C3_FailedSaveNoEffect ==
    (last.op = "save" /\ last.kind = "VfsError") => last.kept

\* C4: load(password) after a successful save(password, metadata, blob)
\* returns the metadata and the blob that were saved.
C4_RoundTrip ==
    (last.op = "load" /\ last.detail # "not_opened" /\ saved.valid
        /\ last.pw = saved.pw)
    => /\ last.kind = "ok"
       /\ metadata = saved.metadata
       /\ file_data = saved.file_data

\* A load has returned a vault of two files and four bytes, which only a
\* save can have written.
C4_Witness ==
    /\ last.op = "load"
    /\ last.kind = "ok"
    /\ saved.valid
    /\ Cardinality(DOMAIN Files) = 2
    /\ Len(file_data) = 4

\* C5: create_new on an opened container completes (and leaves a frame that
\* load accepts).
C5_CreateNewCompletes ==
    (last.op = "create_new" /\ last.detail # "not_opened")
    => last.kind \in {"running", "ok"}

\* C6: on a vault that came from a successful load, add_file of a path that
\* is not stored and remove_file of a stored path succeed.
C6_LoadedVaultMutable ==
    /\ (loaded /\ last.op = "add" /\ last.kind # "ok") => last.detail = "exists"
    /\ (loaded /\ last.op = "remove" /\ last.kind # "ok") => last.detail = "not_found"

\* C7: at no time do two containers have the same vault file open.
C7_ExclusiveOpen ==
    ~(handle[1] /\ handle[2])

\* C8: load of a saved frame one byte of which was changed (header field,
\* nonce or ciphertext) fails, and a load that succeeds returns what was saved.
C8_TamperDetected ==
    last.op = "load"
    => /\ tampered # "none"
            => /\ last.kind = "VfsError"
               /\ last.detail \in {"not_opened", "bad_magic", "bad_version",
                                   "decrypt_failed"}
       /\ (last.kind = "ok" /\ saved.valid)
            => metadata = saved.metadata /\ file_data = saved.file_data

\* An opened container has refused a frame, written by save with one file in
\* it, whose third KDF parameter field was changed.
C8_Witness ==
    /\ last.op = "load"
    /\ last.detail = "decrypt_failed"
    /\ tampered = "p3"
    /\ saved.file_data = <<5, 6>>

\* C9: load with a password other than the one the frame was saved with, and
\* load of a frame whose nonce or ciphertext was changed, fail alike: VfsError
\* from the ContainerError that wraps the decryption failure.
C9_WrongPasswordAsTampered ==
    (last.op = "load" /\ last.detail # "not_opened" /\ saved.valid)
    => /\ (tampered = "none" /\ last.pw # saved.pw)
            => last.kind = "VfsError" /\ last.detail = "decrypt_failed"
       /\ tampered \in {"nonce", "ct"}
            => last.kind = "VfsError" /\ last.detail = "decrypt_failed"

\* An opened container has refused the wrong password for an untouched frame
\* that save wrote with one file in it.
C9_Witness ==
    /\ last.op = "load"
    /\ last.detail = "decrypt_failed"
    /\ tampered = "none"
    /\ saved.valid
    /\ last.pw # saved.pw
    /\ saved.file_data = <<5, 6>>

\* The step is a call of op: the record of the last call becomes one of op.
Called(op) ==
    /\ last'.op = op
    /\ <<last.op, last.kind, last.detail, last.path>>
         # <<last'.op, last'.kind, last'.detail, last'.path>>

\* C11: remove_file(p) for a stored path p with entry (o, s) removes exactly
\* the s bytes at [o, o + s) from the blob, deletes p's entry, lowers by s the
\* offset of every other entry whose offset was greater than o, leaves the
\* other offsets and all sizes as they were, and marks the vault dirty.
C11_RemoveEffect ==
    [][(Called("remove") /\ last'.path \in DOMAIN Files)
       => LET p == last'.path
              o == Files[p].offset
              s == Files[p].size
          IN  /\ last'.kind = "ok"
              /\ Len(file_data') = Len(file_data) - s
              /\ \A i \in 1..Len(file_data') :
                    file_data'[i] = IF i <= o THEN file_data[i] ELSE file_data[i + s]
              /\ DOMAIN Files' = DOMAIN Files \ {p}
              /\ \A q \in DOMAIN Files' :
                    /\ Files'[q].size = Files[q].size
                    /\ Files'[q].offset = IF Files[q].offset > o
                                          THEN Files[q].offset - s
                                          ELSE Files[q].offset
              /\ dirty']_vars

\* C12: add_file(source, p) for a path p that is not stored appends the
\* source's bytes at the end of the blob and inserts exactly one entry, for p,
\* with offset the blob length before the call and size the number of bytes
\* appended; the entries there were and the blob prefix stay as they were, and
\* the vault is marked dirty.
C12_AddEffect ==
    [][(Called("add") /\ last'.path \notin DOMAIN Files)
       => LET p == last'.path
              content == last'.arg
          IN  /\ last'.kind = "ok"
              /\ file_data' = file_data \o content
              /\ DOMAIN Files' = DOMAIN Files \cup {p}
              /\ Files'[p].offset = Len(file_data)
              /\ Files'[p].size = Len(content)
              /\ \A q \in DOMAIN Files : Files'[q] = Files[q]
              /\ dirty']_vars

\* C13: add_file with a path that is already stored and remove_file with a
\* path that is not stored each raise VfsError and leave the metadata, the
\* blob and the dirty flag as they were.
C13_RejectedMutationNoOp ==
    [][(\/ Called("add") /\ last'.path \in DOMAIN Files
        \/ Called("remove") /\ last'.path \notin DOMAIN Files)
       => /\ last'.kind = "VfsError"
          /\ UNCHANGED <<metadata, file_data, dirty>>]_vars

\* C14: save calls the container exactly when the vault is dirty; the dirty
\* flag is set by a successful add_file or remove_file, cleared by a
\* successful load or save (and false in a new vault), and changed by nothing
\* else; a save that fails with VfsError leaves it true.
C14_DirtyFlag ==
    [][/\ Called("save") => (last'.detail = "clean" <=> ~dirty)
       /\ (last'.op = "save" /\ last'.kind = "VfsError") => dirty'
       /\ dirty' =
            IF last'.op \in {"add", "remove"} /\ last'.kind = "ok" THEN TRUE
            ELSE IF last'.op = "load" /\ last'.kind = "ok" THEN FALSE
            ELSE IF last'.op = "save" /\ last'.kind = "ok" /\ last'.detail # "clean"
            THEN FALSE
            ELSE IF last'.op = "new" THEN FALSE
            ELSE dirty]_vars

\* A save of a dirty vault, holding one file, has called the container and
\* failed with VfsError in the middle of the write, and the vault is still
\* dirty.
C14_Witness ==
    /\ last.op = "save"
    /\ last.kind = "VfsError"
    /\ last.detail = "write_failed"
    /\ ~last.kept
    /\ dirty
    /\ Cardinality(DOMAIN Files) = 1

\* a is b or an ancestor of b.
IsPrefix(a, b) == Len(a) <= Len(b) /\ SubSeq(b, 1, Len(a)) = a

\* C15: extract_file(p, d) for a stored path p and a destination d inside the
\* chosen extraction directory succeeds and writes to d exactly the bytes
\* blob[offset .. offset + size) of p's entry, and leaves the metadata, the
\* blob and the dirty flag as they were.
C15_ExtractWrites ==
    [][(/\ last'.op = "extract"
        /\ last'.path \in DOMAIN Files
        /\ IsPrefix(resolve(last'.arg.extract_dir), resolve(last'.arg.dest_path)))
       => /\ last'.kind = "ok"
          /\ Len(last'.ret) = 1
          /\ last'.ret[1].file = last'.arg.dest_path
          /\ last'.ret[1].content =
                SubSeq(file_data, Files[last'.path].offset + 1,
                       Files[last'.path].offset + Files[last'.path].size)
          /\ UNCHANGED <<metadata, file_data, dirty>>]_vars

\* C16: extract_file with a path that is not stored, or with a destination
\* that validate_extraction_path rejects, raises VfsError, and has then made
\* no directory and written no file.
C16_ExtractRejects ==
    (/\ last.op = "extract"
     /\ \/ last.path \notin DOMAIN Files
        \/ ~validate_extraction_path(Spell(last.path), parent(last.arg.dest_path),
                                     "none"))
    => /\ last.kind = "VfsError"
       /\ last.ret = <<>>

\* C17: validate_extraction_path(candidate, dir) is true exactly when the
\* canonical form of candidate resolved against dir is the canonical form of
\* dir or a descendant of it; a candidate that leaves dir through ".." and an
\* absolute candidate outside dir give false; where resolution raises, the
\* result is false.
C17_ValidateExtractionPath ==
    (last.op = "validate" /\ last.kind # "called")
    => LET candidate == PurePath(last.arg.file_path)
           dir == resolve(last.arg.extract_dir)
           against == IF candidate.abs THEN candidate.segs
                      ELSE dir \o candidate.segs
       IN  /\ last.kind = "ok"
           /\ IF last.arg.raises # "none" THEN last.ret = FALSE
              ELSE /\ last.ret <=> IsPrefix(dir, collapse(<<>>, against))
                   /\ (candidate.abs /\ ~IsPrefix(dir, resolve(candidate)))
                         => ~last.ret
                   /\ (/\ ~candidate.abs
                       /\ candidate.segs # <<>>
                       /\ \A i \in 1..Len(candidate.segs) :
                             candidate.segs[i] = <<DOTDOT>>
                       /\ dir # <<>>)
                         => ~last.ret

\* A key in normalized form: exactly one leading slash, forward slashes only,
\* no trailing slash.
Normalized(key) ==
    /\ Len(key) >= 2
    /\ key[1] = SLASH
    /\ key[2] # SLASH
    /\ key[Len(key)] # SLASH
    /\ \A i \in 1..Len(key) : key[i] # BACKSLASH

\* C18: every key of the file map is in normalized form, whatever vault path
\* add_file accepted (the empty string and a lone slash among them);
\* normalization is idempotent; two spellings with the same normalized form
\* address the same entry.
C18_KeysNormalized ==
    /\ \A p \in DOMAIN Files : Normalized(Spell(p))
    /\ \A raw \in RawPaths :
          normalize_path(normalize_path(raw)) = normalize_path(raw)
    /\ \A p \in DOMAIN Files, raw \in RawPaths :
          normalize_path(raw) = normalize_path(Spell(p))
             => normalize_path(raw) = Spell(p)

\* C19: get_directory_tree is a pure read, also where one stored path is a
\* segment-wise prefix of another: it leaves the metadata map, every
\* FileEntry, the blob and the dirty flag as they were.
C19_TreePureRead ==
    [][last'.op = "tree" => UNCHANGED <<metadata, file_data, dirty>>]_vars

\* The leaf of the tree that the segments of stored path p lead to is p's
\* entry, and the segment before it, if any, is a directory node.
LeafOf(tree, p) ==
    LET parts == PathSegs(p)
    IN  /\ parts[1] \in DOMAIN tree
        /\ IF Len(parts) = 1 THEN tree[parts[1]].entry = p
           ELSE /\ tree[parts[1]].entry = 0
                /\ <<parts[2], p>> \in tree[parts[1]].dir

\* C20: in the tree get_directory_tree returns, every stored file is a leaf
\* reached by the segments of its path and carrying its entry, under
\* directory nodes only; no stored file is missing, whatever the order in
\* which the files were added.
C20_TreeComplete ==
    (last.op = "tree" /\ last.kind = "ok")
    => \A p \in DOMAIN Files : LeafOf(last.ret, p)

\* C21: a load that fails raises VfsError (ContainerError from the container)
\* and leaves the metadata, the blob and the dirty flag of the VFS as they
\* were.
C21_LoadFailure ==
    [][(Called("load") /\ last'.kind # "ok")
       => /\ last'.kind = "VfsError"
          /\ metadata' = metadata
          /\ file_data' = file_data
          /\ dirty' = dirty]_vars

\* C22: every failure of a VFS operation (load, save, add_file, remove_file,
\* extract_file), in any state of the VFS, reaches the caller as VfsError, and
\* every failure of a container operation (create_new) as ContainerError.
C22_FailuresWrapped ==
    last.kind \notin {"ok", "running"}
    => /\ last.op \in {"load", "save", "add", "remove", "extract"}
            => last.kind = "VfsError"
       /\ last.op = "create_new" => last.kind = "ContainerError"

\* C23: load and save on a file whose magic bytes or version do not match
\* reject it, and they do so before any key derivation, encryption or
\* decryption: the rejected call has made no call to the CryptoManager.
C23_HeaderCheckedFirst ==
    [][(/\ Called("load") \/ (Called("save") /\ dirty)
        /\ handle[1]
        /\ parse_header(disk.n, disk.header) \in {"bad_magic", "bad_version"})
       => /\ last'.kind = "VfsError"
          /\ last'.detail = parse_header(disk.n, disk.header)
          /\ last'.crypto = <<>>]_vars

\* A save of a changed vault has been refused on a file whose version field
\* was altered.
C23_Witness ==
    /\ last.op = "save"
    /\ last.kind = "VfsError"
    /\ last.detail = "bad_version"
    /\ tampered = "version"
    /\ dirty

\* C24: no step of a save changes the header of the vault file: magic,
\* version, salt and the three KDF parameter fields on disk are, after the
\* save, what they were before it, however many saves there have been.
C24_SaveKeepsHeader ==
    [][last'.op = "save" => disk'.header = disk.header]_vars

\* A save has completed, under a password other than the vault's first one,
\* with two stored files, and the file still carries the first header.
C24_Witness ==
    /\ last.op = "save"
    /\ last.kind = "ok"
    /\ last.detail = ""
    /\ saved.valid
    /\ saved.pw = "pw2"
    /\ Cardinality(DOMAIN saved.metadata.files) = 2
    /\ disk.header = ExistingVault.header

\* The bytes entry p of files resolves to in blob data.
SliceOf(data, files, p) ==
    SubSeq(data, files[p].offset + 1, files[p].offset + files[p].size)

\* C26: after any sequence of successful and rejected add_file and
\* remove_file calls, every stored path resolves to the bytes that were read
\* from its source file when it was added: a successful add makes its path
\* resolve to the bytes read, and no add or remove, successful or rejected,
\* changes the bytes any other stored path resolves to.
C26_ContentPreserved ==
    /\ [](\A p \in DOMAIN Files :
            SliceOf(file_data, Files, p) = Source(p, Files[p].size))
    /\ [][(Called("add") /\ last'.kind = "ok")
          => SliceOf(file_data', Files', last'.path) = last'.arg]_vars
    /\ [][(Called("add") \/ Called("remove"))
          => \A q \in DOMAIN Files' \ {last'.path} :
                /\ q \in DOMAIN Files
                /\ SliceOf(file_data', Files', q) = SliceOf(file_data, Files, q)]_vars

\* A remove has succeeded and the one file that is left, of two bytes, starts
\* at offset 0 and resolves to the bytes of its own source file.
C26_Witness ==
    /\ last.op = "remove"
    /\ last.kind = "ok"
    /\ \E q \in DOMAIN Files :
        /\ q # last.path
        /\ Files[q].offset = 0
        /\ Files[q].size = 2
        /\ file_data = Source(q, 2)

\* The workers whose operation or callback is running.
InFlight == { w \in Workers : workers[w].pc \in {"operation", "callback"} }

\* C25: AsyncOperations never has two worker operations in flight at the same
\* time on the VFS of the open vault.
C25_OneWorkerInFlight ==
    Cardinality(InFlight) <= 1

\* C30: an operation started through _run_operation completes: when its
\* worker thread has ended there is a result, the application callback has
\* been called exactly once with it, the progress dialog is closed and
\* forgotten, and current_worker is None again.
C30_OperationCompletes ==
    \A w \in Workers :
        workers[w].pc = "done"
        => /\ workers[w].result \in {"success", "failed"}
           /\ app_calls[w] = 1
           /\ w \notin dialogs
           /\ progress_dialog # w
           /\ current_worker # w

\* C27: lock_callback is invoked at most once per started session, only
\* when the session was running and the inactivity since the last
\* update_activity or start_session is at least the timeout, and never after
\* stop_session has returned unless start_session was called since; under
\* every interleaving of the callers, two concurrent start_session calls
\* included, with the monitor threads.
C27_CallbackOnce ==
    /\ [](fired <= 1)
    /\ [][callbacks' # callbacks
          => /\ callbacks' = callbacks + 1
             /\ ~stopped
             /\ now - last_activity >= timeout_minutes]_vars
    /\ [][\A m \in Monitors :
            (monitors[m] # "callback" /\ monitors'[m] = "callback")
            => _running /\ Inactive]_vars

\* Two concurrent start_session calls have each created a monitor thread,
\* both threads are alive, and the callback has been invoked once, by the one
\* that is leaving its loop while the other still sleeps.
C27_Witness ==
    /\ callbacks = 1
    /\ fired = 1
    /\ lock_callback = "plain"
    /\ \E m, k \in Monitors :
        /\ monitors[m] = "exit"
        /\ monitors[k] = "sleep"

\* C28: whenever a session is running (and no start_session call is still
\* on its way to create the thread) a monitor thread is alive in its loop and
\* will check the session, also when stop_session is followed at once by
\* start_session while the monitor thread is leaving its loop.
C28_MonitorWatches ==
    (_running /\ \A c \in Callers : callers[c] = "idle")
    => \E m \in Monitors : monitors[m] \in {"while", "sleep"}

\* C29: no thread waits for the manager's lock forever: in particular a
\* lock_callback that calls stop_session, update_activity or
\* get_time_until_timeout never waits for the lock its own thread holds.
C29_DeadlockFree ==
    \A m \in Monitors : ~(monitors[m] = "blocked" /\ _lock = m)

====
